---- MODULE Spec2Model ----
(***************************************************************************)
(* A model of the mmm-trading-system core: the priority event dispatcher   *)
(* (src/src/event_manager.py, src/src/db/queries/events.py), the order     *)
(* controller (src/src/order_processing/order_controller.py) and the live  *)
(* order executor (src/src/order_processing/live_order_executor.py).       *)
(*                                                                         *)
(* The repositories (ClickHouse tables events, orders, event_managers) are *)
(* modelled at their read/write contract: every query is one atomic step.  *)
(* Row ids are the positions in the tables (uuid4 values are only ever     *)
(* compared for equality).                                                 *)
(***************************************************************************)
EXTENDS Integers, Sequences, FiniteSets, TLC

VARIABLES
    \* ---- events table and the clock behind now()
    events,        \* Seq of event rows; the event id is the position
    clock,         \* the value now() returns
    \* ---- event_managers table and the EventManager threads
    mgrStatus,     \* event_managers.status per manager
    running,       \* EventManager.running
    thread,        \* where each manager's thread is
    cur,           \* the event a manager's _handle_event is working on (0: none)
    handled,       \* per manager: the first events handed to _handle_event, in order
    failures,      \* handler failures so far (bounded)
    calls,         \* per manager: what the start() / stop() calls so far amount to
    handlerCalls,  \* order ids _handle_event has passed to execute_order
    \* ---- orders table and the callers of OrderController.create_order
    orders,        \* Seq of order rows; the order id is the position
    ctl,           \* per caller: position in create_order, arguments, ids so far
    creates,       \* create_order calls started so far (bounded)
    repoFailures,  \* repository write failures so far (bounded)
    \* ---- LiveOrderExecutor (class state, instance state, calling threads)
    instance,      \* LiveOrderExecutor._instance is set
    initialized,   \* self._initialized
    executingOrders, \* keys of self._executing_orders
    lockHolder,    \* who holds the current self._lock object
    monitorThreads,\* monitor threads started so far
    eng,           \* per thread: position in __new__/__init__/execute_order
    submitted,     \* per order id: submissions the gateway accepted
    execCalls,     \* execute_order calls started so far (bounded)
    notifications  \* (type, order id) pairs published by the executor

dispatchVars == <<events, clock, mgrStatus, running, thread, cur, handled, failures,
                  calls, handlerCalls>>
createVars == <<orders, ctl, creates, repoFailures>>
engineVars == <<instance, initialized, executingOrders, lockHolder, monitorThreads,
                eng, submitted, execCalls, notifications>>
vars == <<dispatchVars, createVars, engineVars>>

----------------------------------------------------------------------------
(* Bounds of the model *)

MaxEvents == 2
MaxClock == 2
MaxHandlerFailures == 1
MaxExecCalls == 2
MaxCreates == 1
MaxRepoFailures == 1
MaxHandled == 3
MaxExternalEvents == 1

\* event_managers rows; the managers whose EventManager object lives in this process
Managers == {"m1", "m2"}
Local == {"m1"}
Priorities == {1, 2}

(* SQL NULL (executed_at IS NULL, parent_order_id NULL); ids and times are >= 1 *)
NULL == 0

----------------------------------------------------------------------------
(* events table: src/src/db/queries/events.py *)

EventRow(m, type, prio, payload) ==
    [event_manager_id |-> m, event_type |-> type, priority |-> prio,
     payload |-> payload, created_at |-> clock, executed_at |-> NULL]

\* INSERT INTO events (...) VALUES (..., now())
add_event(m, type, prio, payload) == Append(events, EventRow(m, type, prio, payload))

EventIds == 1..Len(events)

\* WHERE event_manager_id = ... AND executed_at IS NULL
Unprocessed(m) ==
    {i \in EventIds : events[i].event_manager_id = m /\ events[i].executed_at = NULL}

\* ORDER BY priority DESC, created_at ASC: row a sorts strictly before row b
SortsBefore(a, b) ==
    \/ events[a].priority > events[b].priority
    \/ /\ events[a].priority = events[b].priority
       /\ events[a].created_at < events[b].created_at

\* A get_next_event whose ORDER BY has the priority the wrong way round.
get_next_event_asc(m) ==
    {i \in Unprocessed(m) : \A j \in Unprocessed(m) :
        ~(\/ events[j].priority < events[i].priority
          \/ /\ events[j].priority = events[i].priority
             /\ events[j].created_at < events[i].created_at)}

\* A get_next_event that returns the oldest pending row whatever its priority.
get_next_event_fifo(m) ==
    {i \in Unprocessed(m) : \A j \in Unprocessed(m) : i <= j}

\* A get_next_event without the event_manager_id filter.
get_next_event_anyowner(m) ==
    LET pending == {i \in EventIds : events[i].executed_at = NULL}
    IN {i \in pending : \A j \in pending : ~SortsBefore(j, i)}

\* A get_next_event without the executed_at IS NULL filter.
get_next_event_nofilter(m) ==
    LET mine == {i \in EventIds : events[i].event_manager_id = m}
    IN {i \in mine : \A j \in mine : ~SortsBefore(j, i)}

\* ... ORDER BY priority DESC, created_at ASC LIMIT 1: the rows LIMIT 1 may
\* return (rows equal in both keys come in either order); {} when no row matches
get_next_event(m) ==
    {i \in Unprocessed(m) : \A j \in Unprocessed(m) : ~SortsBefore(j, i)}

\* A mark_event_as_processed that deletes the row of the processed event.
mark_event_as_processed_delete(e) ==
    SubSeq(events, 1, e - 1) \o SubSeq(events, e + 1, Len(events))

\* A mark_event_as_processed whose UPDATE matches no row.
mark_event_as_processed_norow(e) == events

\* ALTER TABLE events UPDATE executed_at = now() WHERE event_id = ...
mark_event_as_processed(e) ==
    [events EXCEPT ![e].executed_at = clock]

----------------------------------------------------------------------------
(* orders table: src/src/db/queries/orders.py *)

Statuses == {"pending", "executing", "executed", "canceled"}
Terminal == {"executed", "canceled"}

OrderIds == 1..Len(orders)

\* A lookup that returns a row whatever the id.
get_order_by_id_anyrow(o) == <<orders[1]>>

\* SELECT * FROM orders WHERE order_id = ...: the list of matching rows
get_order_by_id(o) == IF o \in OrderIds THEN <<orders[o]>> ELSE <<>>

\* ALTER TABLE orders UPDATE order_status = ..., updated_at = now() WHERE order_id = ...
update_order_status(o, s) == [orders EXCEPT ![o].order_status = s]

\* SELECT order_id FROM orders WHERE order_status = 'executing'
get_executing_orders == {o \in OrderIds : orders[o].order_status = "executing"}

----------------------------------------------------------------------------
(* EventManager: src/src/event_manager.py *)

\* a caller inserts an event row for manager m
AddEvent(m, prio) ==
    /\ Len(events) < MaxEvents
    /\ events' = add_event(m, "signal", prio, NULL)
    /\ UNCHANGED <<clock, mgrStatus, running, thread, cur, handled, failures, calls,
                   handlerCalls>>

\* the events some caller of add_event wrote with type "OrderPlacementEvent"
ExternalEvents == {e \in EventIds : events[e].event_type = "OrderPlacementEvent"}

\* a caller inserts an event row of the type _handle_event passes on to the
\* executor, for order id o
AddPlacementEvent(m, prio, o) ==
    /\ Cardinality(ExternalEvents) < MaxExternalEvents
    /\ events' = add_event(m, "OrderPlacementEvent", prio, [order_id |-> o])
    /\ UNCHANGED <<clock, mgrStatus, running, thread, cur, handled, failures, calls,
                   handlerCalls>>

\* time passes: now() returns a later value
Tick ==
    /\ clock < MaxClock
    /\ clock' = clock + 1
    /\ UNCHANGED <<events, mgrStatus, running, thread, cur, handled, failures, calls,
                   handlerCalls>>

\* what the calls made on a manager amount to after one more start(): "started"
\* (the first start), "restarted" (started again, never stopped), "resumed"
\* (started after a stop)
AfterStart(h) ==
    CASE h = "none" -> "started"
      [] h = "started" -> "restarted"
      [] h = "stopped" -> "resumed"
      [] OTHER -> h

\* ... and after one more stop(): "stopped" (stop() has returned and start() was
\* not called since); a stop() before the first start() leaves "none"
AfterStop(h) == IF h = "none" THEN "none" ELSE "stopped"

\* A Thread.start() that runs the thread again however often it is called.
ThreadStartAgain(st) == "spawned"

\* threading.Thread.start(): a thread that was never started is started; on any
\* other it raises RuntimeError ("threads can only be started once") and changes
\* nothing
ThreadStart(st) == IF st = "new" THEN "spawned" ELSE st

\* EventManager.start: status active, then Thread.start(), whose RuntimeError is
\* caught and logged
Start(m) ==
    /\ mgrStatus' = [mgrStatus EXCEPT ![m] = "active"]
    /\ thread' = [thread EXCEPT ![m] = ThreadStart(@)]
    /\ calls' = [calls EXCEPT ![m] = AfterStart(@)]
    /\ UNCHANGED <<events, clock, running, cur, handled, failures, handlerCalls>>

\* EventManager.run, up to the loop: self.running = True
RunEnter(m) ==
    /\ thread[m] = "spawned"
    /\ running' = [running EXCEPT ![m] = TRUE]
    /\ thread' = [thread EXCEPT ![m] = "loop"]
    /\ UNCHANGED <<events, clock, mgrStatus, cur, handled, failures, calls, handlerCalls>>

\* one iteration of the loop that finds an event and hands it to _handle_event
\* (an iteration that finds none sleeps and changes nothing)
SelectEvent(m) ==
    /\ thread[m] = "loop"
    /\ running[m]
    /\ \E e \in get_next_event(m) :
        /\ cur' = [cur EXCEPT ![m] = e]
        /\ handled' = [handled EXCEPT ![m] =
                          IF Len(@) < MaxHandled
                          THEN Append(@, [eid |-> e, n |-> Len(events)])
                          ELSE @]
    /\ thread' = [thread EXCEPT ![m] = "handling"]
    /\ UNCHANGED <<events, clock, mgrStatus, running, failures, calls, handlerCalls>>

\* _handle_event, the dispatch on event_type: the order ids passed to
\* self._order_executor.execute_order while event e is handled
execute_order_calls(e) ==
    IF events[e].event_type = "OrderPlacementEvent"
    THEN {events[e].payload.order_id}
    ELSE {}

\* execute_order raises ValueError("Order ... not found") whenever it is called
\* for an order id the orders table does not hold
AlwaysRaises(e) ==
    \E o \in execute_order_calls(e) : get_order_by_id(o) = <<>>

\* A handler whose except branch marks the event processed.
handle_event_except_marks(e) == mark_event_as_processed(e)

\* _handle_event, the except branch: the error is logged, the events table is
\* left as it is
handle_event_except(e) == events

\* _handle_event completes: the event is marked processed
HandleOk(m) ==
    /\ thread[m] = "handling"
    /\ ~AlwaysRaises(cur[m])
    /\ handlerCalls' = handlerCalls \cup execute_order_calls(cur[m])
    /\ events' = mark_event_as_processed(cur[m])
    /\ cur' = [cur EXCEPT ![m] = 0]
    /\ thread' = [thread EXCEPT ![m] = "loop"]
    /\ UNCHANGED <<clock, mgrStatus, running, handled, failures, calls>>

\* _handle_event raises before the mark (execute_order or the repository fails):
\* caught, logged, the event stays unmarked
HandleFail(m) ==
    /\ thread[m] = "handling"
    /\ failures < MaxHandlerFailures
    /\ failures' = failures + 1
    /\ handlerCalls' = handlerCalls \cup execute_order_calls(cur[m])
    /\ events' = handle_event_except(cur[m])
    /\ cur' = [cur EXCEPT ![m] = 0]
    /\ thread' = [thread EXCEPT ![m] = "loop"]
    /\ UNCHANGED <<clock, mgrStatus, running, handled, calls>>

\* _handle_event for an event whose execute_order call raises every time
HandleRaise(m) ==
    /\ thread[m] = "handling"
    /\ AlwaysRaises(cur[m])
    /\ handlerCalls' = handlerCalls \cup execute_order_calls(cur[m])
    /\ events' = handle_event_except(cur[m])
    /\ cur' = [cur EXCEPT ![m] = 0]
    /\ thread' = [thread EXCEPT ![m] = "loop"]
    /\ UNCHANGED <<clock, mgrStatus, running, handled, failures, calls>>

\* the loop test fails: status inactive, the thread ends
LoopExit(m) ==
    /\ thread[m] = "loop"
    /\ ~running[m]
    /\ mgrStatus' = [mgrStatus EXCEPT ![m] = "inactive"]
    /\ thread' = [thread EXCEPT ![m] = "finished"]
    /\ UNCHANGED <<events, clock, running, cur, handled, failures, calls, handlerCalls>>

\* the loop test fails and update_event_manager_status raises: caught and logged
\* by run, the thread ends with the status as it was
LoopExitFail(m) ==
    /\ thread[m] = "loop"
    /\ ~running[m]
    /\ thread' = [thread EXCEPT ![m] = "finished"]
    /\ UNCHANGED <<events, clock, mgrStatus, running, cur, handled, failures, calls,
                   handlerCalls>>

\* A stop() that writes the status itself, as its docstring says.
StopWritesStatus(m) ==
    /\ running' = [running EXCEPT ![m] = FALSE]
    /\ mgrStatus' = [mgrStatus EXCEPT ![m] = "inactive"]
    /\ calls' = [calls EXCEPT ![m] = AfterStop(@)]
    /\ UNCHANGED <<events, clock, thread, cur, handled, failures, handlerCalls>>

\* EventManager.stop: self.running = False, and the call returns
Stop(m) ==
    /\ running' = [running EXCEPT ![m] = FALSE]
    /\ calls' = [calls EXCEPT ![m] = AfterStop(@)]
    /\ UNCHANGED <<events, clock, mgrStatus, thread, cur, handled, failures, handlerCalls>>

----------------------------------------------------------------------------
(* LiveOrderExecutor: src/src/order_processing/live_order_executor.py *)

Threads == {"t1", "t2"}

\* what one execute_order call can meet: the gateway refusing or failing
\* (place_order false or raising, exchange not configured), the gateway accepting,
\* and after that the status update or the notification raising
ExecOutcomes == {"rejected", "accepted", "update_failed", "publish_failed"}

\* what the monitor can meet for one order: check_order_status says anything but
\* "executed" or raises ("open"), says "executed", and after that the status update
\* or the notification raising
CheckOutcomes == {"open", "executed", "update_failed", "publish_failed"}

\* LiveOrderExecutor.__new__: under _instance_lock, create the instance once
New(t) ==
    /\ eng[t].pc \in {"start", "ready"}
    /\ instance' = TRUE
    /\ eng' = [eng EXCEPT ![t].pc = "new"]
    /\ UNCHANGED <<initialized, executingOrders, lockHolder, monitorThreads,
                   submitted, execCalls, notifications, orders>>

\* __init__: if hasattr(self, "_initialized") and self._initialized: return
InitCheck(t) ==
    /\ eng[t].pc = "new"
    /\ eng' = [eng EXCEPT ![t].pc = IF initialized THEN "ready" ELSE "init"]
    /\ UNCHANGED <<instance, initialized, executingOrders, lockHolder, monitorThreads,
                   submitted, execCalls, notifications, orders>>

\* __init__: self._lock = threading.Lock(); self._executing_orders = {}
InitFields(t) ==
    /\ eng[t].pc = "init"
    /\ lockHolder' = "free"
    /\ executingOrders' = {}
    /\ eng' = [eng EXCEPT ![t].pc = "init2"]
    /\ UNCHANGED <<instance, initialized, monitorThreads, submitted, execCalls,
                   notifications, orders>>

\* __init__: start the monitor thread; self._initialized = True
InitStart(t) ==
    /\ eng[t].pc = "init2"
    /\ monitorThreads' = monitorThreads + 1
    /\ initialized' = TRUE
    /\ eng' = [eng EXCEPT ![t].pc = "ready"]
    /\ UNCHANGED <<instance, executingOrders, lockHolder, submitted, execCalls,
                   notifications, orders>>

\* execute_order: with self._lock (entered)
ExecBegin(t, o) ==
    /\ eng[t].pc = "ready"
    /\ lockHolder = "free"
    /\ execCalls < MaxExecCalls
    /\ execCalls' = execCalls + 1
    /\ lockHolder' = t
    /\ eng' = [eng EXCEPT ![t] = [pc |-> "exec", oid |-> o, res |-> "none", seen |-> "none"]]
    /\ UNCHANGED <<instance, initialized, executingOrders, monitorThreads, submitted,
                   notifications, orders>>

\* leaving the with block releases the lock object that was acquired
Release(t) == IF lockHolder = t THEN "free" ELSE lockHolder

\* An execute_order that goes on after a placement the gateway refused.
place_order_refused_ignored(oc) == FALSE

\* if exchange_name not in self.exchanges: raise; if not exchange.place_order(order):
\* raise (place_order raising included)
place_order_refused(oc) == oc = "rejected"

\* execute_order: the body under the lock, with outcome oc
ExecBody(t, oc) ==
    LET o == eng[t].oid
        found == get_order_by_id(o) # <<>>
        seen == IF found THEN get_order_by_id(o)[1].order_status ELSE "none"
    IN
    /\ eng[t].pc = "exec"
    /\ lockHolder' = Release(t)
    /\ IF ~found \/ place_order_refused(oc)
       THEN \* ValueError / placement failed: raised before any write
            /\ eng' = [eng EXCEPT ![t].pc = "ready", ![t].res = "raised", ![t].seen = seen]
            /\ UNCHANGED <<submitted, orders, executingOrders, notifications>>
       ELSE /\ submitted' = [submitted EXCEPT ![o] = @ + 1]
            /\ orders' = IF oc = "update_failed" THEN orders
                         ELSE update_order_status(o, "executing")
            /\ executingOrders' = IF oc = "update_failed" THEN executingOrders
                                  ELSE executingOrders \cup {o}
            /\ notifications' = IF oc = "accepted"
                                THEN notifications \cup {<<"OrderExecuting", o>>}
                                ELSE notifications
            /\ eng' = [eng EXCEPT ![t].pc = "ready", ![t].seen = seen,
                                  ![t].res = IF oc = "accepted" THEN "ok" ELSE "raised"]
    /\ UNCHANGED <<instance, initialized, monitorThreads, execCalls>>

\* A monitor pass that appends nothing to executed_orders.
executed_orders_none(check) == {}

\* executed_orders: the ids the pass appends after the update and the notification
executed_orders(check) == {o \in executingOrders : check[o] = "executed"}

\* _monitor_executing_orders: one pass under the lock; check[o] is what the pass
\* meets for order o
MonitorPass(check) ==
    LET done == {o \in executingOrders : check[o] \in {"executed", "publish_failed"}}
        dropped == executed_orders(check)
    IN
    /\ monitorThreads > 0
    /\ lockHolder = "free"
    /\ executingOrders # {}
    /\ executingOrders' = executingOrders \ dropped
    /\ notifications' = notifications \cup {<<"OrderExecuted", o>> : o \in dropped}
    /\ orders' = [o \in OrderIds |->
                    IF o \in done THEN [orders[o] EXCEPT !.order_status = "executed"]
                    ELSE orders[o]]
    /\ UNCHANGED <<instance, initialized, lockHolder, monitorThreads, eng, submitted,
                   execCalls>>

----------------------------------------------------------------------------
(* OrderController.create_order: src/src/order_processing/order_controller.py *)

Callers == {"c1", "c2"}

\* an optional argument: <<>> is None, <<v>> is the value v
None == <<>>

\* target_price = None, as passed for an order without a price
NoPrice == -1

\* the arguments callers pass
CreateArgs ==
    [portfolio_id : {<<"p1">>}, event_manager_id : {"m1", ""}, signal_id : {"s1", ""},
     order_type : {"limit", "market", "stop_loss"}, order_category : {"spot"},
     order_side : {"buy", "sell", "hold"}, target_price : {NoPrice, 0, 1},
     order_status : {"pending"}, symbol : {"BTCUSD"}, exchange : {"bybit"},
     base_currency : {"BTC"}, quote_currency : {"USD"}, initial_quantity : {0, 1},
     stop_loss : {None, <<0>>, <<2>>}, take_profit : {None, <<0>>, <<3>>}]

NoArgs == [stop_loss |-> None, take_profit |-> None]

\* the "Basic validation" block: TRUE when nothing is raised (a ValueError, or the
\* TypeError of None <= Decimal("0"))
Validate(a) ==
    /\ a.portfolio_id # None
    /\ a.event_manager_id # ""
    /\ a.symbol # ""
    /\ a.exchange # ""
    /\ a.order_side \in {"buy", "sell"}
    /\ ~(a.target_price = NoPrice \/ a.target_price <= 0)
    /\ ~(a.initial_quantity <= 0)
    /\ ~(a.stop_loss # None /\ a.stop_loss[1] <= 0)
    /\ ~(a.take_profit # None /\ a.take_profit[1] <= 0)

main_order_data(a) ==
    [portfolio_id |-> a.portfolio_id, event_manager_id |-> a.event_manager_id,
     signal_id |-> a.signal_id, order_type |-> a.order_type,
     order_category |-> a.order_category, order_side |-> a.order_side,
     target_price |-> a.target_price, order_status |-> a.order_status,
     symbol |-> a.symbol, exchange |-> a.exchange,
     base_currency |-> a.base_currency, quote_currency |-> a.quote_currency,
     initial_quantity |-> a.initial_quantity,
     executed_quantity |-> 0, extra_summary |-> NULL, total_fee |-> 0]

\* A stop-loss row that keeps the parent's target_price.
stop_loss_order_data_parentprice(parent_order_id, parent, stop_loss_price) ==
    [portfolio_id |-> parent.portfolio_id, event_manager_id |-> parent.event_manager_id,
     signal_id |-> parent.signal_id, order_type |-> "stop_loss",
     order_category |-> parent.order_category,
     order_side |-> IF parent.order_side = "buy" THEN "sell" ELSE "buy",
     target_price |-> parent.target_price, order_status |-> parent.order_status,
     symbol |-> parent.symbol, exchange |-> parent.exchange,
     base_currency |-> parent.base_currency, quote_currency |-> parent.quote_currency,
     initial_quantity |-> parent.initial_quantity,
     executed_quantity |-> 0, extra_summary |-> NULL, total_fee |-> 0,
     parent_order_id |-> parent_order_id]

\* _create_stop_loss_order: the row derived from the parent's data
stop_loss_order_data(parent_order_id, parent, stop_loss_price) ==
    [portfolio_id |-> parent.portfolio_id, event_manager_id |-> parent.event_manager_id,
     signal_id |-> parent.signal_id, order_type |-> "stop_loss",
     order_category |-> parent.order_category,
     order_side |-> IF parent.order_side = "buy" THEN "sell" ELSE "buy",
     target_price |-> stop_loss_price, order_status |-> parent.order_status,
     symbol |-> parent.symbol, exchange |-> parent.exchange,
     base_currency |-> parent.base_currency, quote_currency |-> parent.quote_currency,
     initial_quantity |-> parent.initial_quantity,
     executed_quantity |-> 0, extra_summary |-> NULL, total_fee |-> 0,
     parent_order_id |-> parent_order_id]

\* _create_take_profit_order: the row derived from the parent's data
take_profit_order_data(parent_order_id, parent, take_profit_price) ==
    [portfolio_id |-> parent.portfolio_id, event_manager_id |-> parent.event_manager_id,
     signal_id |-> parent.signal_id, order_type |-> "take_profit",
     order_category |-> parent.order_category,
     order_side |-> IF parent.order_side = "buy" THEN "sell" ELSE "buy",
     target_price |-> take_profit_price, order_status |-> parent.order_status,
     symbol |-> parent.symbol, exchange |-> parent.exchange,
     base_currency |-> parent.base_currency, quote_currency |-> parent.quote_currency,
     initial_quantity |-> parent.initial_quantity,
     executed_quantity |-> 0, extra_summary |-> NULL, total_fee |-> 0,
     parent_order_id |-> parent_order_id]

\* A main-order payload built from an id that is not the inserted order's.
main_event_payload_unwritten(main_order_id, a) ==
    [order_id |-> main_order_id + 1, order_status |-> a.order_status]

\* the payload published with the main order
main_event_payload(main_order_id, a) ==
    [order_id |-> main_order_id, order_status |-> a.order_status]

\* A stop-loss payload that carries the parent's id instead of the new order's.
stop_loss_event_payload_parent(parent_order_id, stop_loss_order_id, parent) ==
    [order_id |-> parent_order_id, order_status |-> parent.order_status]

\* the payload published with the stop-loss order
stop_loss_event_payload(parent_order_id, stop_loss_order_id, parent) ==
    [order_id |-> stop_loss_order_id, order_status |-> parent.order_status]

\* the payload published with the take-profit order
take_profit_event_payload(parent_order_id, take_profit_order_id, parent) ==
    [order_id |-> take_profit_order_id, order_status |-> parent.order_status]

\* A create_order whose take-profit test is an elif of the stop-loss test.
AfterStepElif(pc, a) ==
    CASE pc = "main_event" -> IF a.stop_loss # None THEN "sl"
                              ELSE IF a.take_profit # None THEN "tp" ELSE "returned"
      [] pc = "sl_event" -> "returned"
      [] pc = "tp_event" -> "returned"
      [] OTHER -> pc

\* the control flow of create_order after an event is published: "if stop_loss is
\* not None", then "if take_profit is not None", then return
AfterStep(pc, a) ==
    CASE pc = "main_event" -> IF a.stop_loss # None THEN "sl"
                              ELSE IF a.take_profit # None THEN "tp" ELSE "returned"
      [] pc = "sl_event" -> IF a.take_profit # None THEN "tp" ELSE "returned"
      [] pc = "tp_event" -> "returned"
      [] OTHER -> pc

\* self._insert_order_into_db(data): one INSERT into orders, as add_order does;
\* a dictionary without parent_order_id is written with parent_order_id NULL
insert_order_into_db(data) ==
    Append(orders,
           IF "parent_order_id" \in DOMAIN data THEN data
           ELSE [f \in DOMAIN data \cup {"parent_order_id"} |->
                    IF f = "parent_order_id" THEN NULL ELSE data[f]])

\* the priority publish_event gives the events it writes
PublishPriority == 2

\* event_manager.publish_event(type, payload): one INSERT into events, owned by
\* the manager the call is made on
publish_event(m, type, payload) == add_event(m, type, PublishPriority, payload)

Idle(c) == ctl[c].pc \in {"idle", "returned", "raised"}

\* create_order is called with arguments a: validation, which raises before
\* any write
CreateCallWith(c, a) ==
    /\ Idle(c)
    /\ creates < MaxCreates
    /\ creates' = creates + 1
    /\ ctl' = [ctl EXCEPT ![c] =
                 [pc |-> IF Validate(a) THEN "main" ELSE "raised",
                  args |-> IF Validate(a) THEN a ELSE NoArgs,
                  ids |-> <<>>, wroteOrders |-> {}, wroteEvents |-> {}]]
    /\ UNCHANGED <<orders, events, repoFailures>>

\* create_order is called with some arguments
CreateCall(c) ==
    /\ Idle(c)
    /\ creates < MaxCreates
    /\ \E a \in CreateArgs : CreateCallWith(c, a)

\* main_order_id = self._insert_order_into_db(main_order_data)
InsertMain(c) ==
    /\ ctl[c].pc = "main"
    /\ orders' = insert_order_into_db(main_order_data(ctl[c].args))
    /\ ctl' = [ctl EXCEPT ![c].pc = "main_event",
                          ![c].ids = Append(@, Len(orders')),
                          ![c].wroteOrders = @ \cup {Len(orders')}]
    /\ UNCHANGED <<events, creates, repoFailures>>

\* event_manager.publish_event("OrderAwaitingExecution", {main order})
PublishMain(c) ==
    /\ ctl[c].pc = "main_event"
    /\ events' = publish_event(ctl[c].args.event_manager_id, "OrderAwaitingExecution",
                               main_event_payload(ctl[c].ids[1], ctl[c].args))
    /\ ctl' = [ctl EXCEPT ![c].pc = AfterStep("main_event", ctl[c].args),
                          ![c].wroteEvents = @ \cup {Len(events')}]
    /\ UNCHANGED <<orders, creates, repoFailures>>

\* _create_stop_loss_order, up to the insert; the id is appended on return
InsertStopLoss(c) ==
    /\ ctl[c].pc = "sl"
    /\ orders' = insert_order_into_db(
                    stop_loss_order_data(ctl[c].ids[1], main_order_data(ctl[c].args),
                                         ctl[c].args.stop_loss[1]))
    /\ ctl' = [ctl EXCEPT ![c].pc = "sl_event",
                          ![c].wroteOrders = @ \cup {Len(orders')}]
    /\ UNCHANGED <<events, creates, repoFailures>>

\* _create_stop_loss_order: publish_event, return; created_order_ids.append
PublishStopLoss(c) ==
    LET new == CHOOSE o \in ctl[c].wroteOrders : \A x \in ctl[c].wroteOrders : x <= o
    IN
    /\ ctl[c].pc = "sl_event"
    /\ events' = publish_event(ctl[c].args.event_manager_id, "OrderAwaitingExecution",
                               stop_loss_event_payload(ctl[c].ids[1], new,
                                                       main_order_data(ctl[c].args)))
    /\ ctl' = [ctl EXCEPT ![c].pc = AfterStep("sl_event", ctl[c].args),
                          ![c].ids = Append(@, new),
                          ![c].wroteEvents = @ \cup {Len(events')}]
    /\ UNCHANGED <<orders, creates, repoFailures>>

\* _create_take_profit_order, up to the insert
InsertTakeProfit(c) ==
    /\ ctl[c].pc = "tp"
    /\ orders' = insert_order_into_db(
                    take_profit_order_data(ctl[c].ids[1], main_order_data(ctl[c].args),
                                           ctl[c].args.take_profit[1]))
    /\ ctl' = [ctl EXCEPT ![c].pc = "tp_event",
                          ![c].wroteOrders = @ \cup {Len(orders')}]
    /\ UNCHANGED <<events, creates, repoFailures>>

\* _create_take_profit_order: publish_event, return; created_order_ids.append
PublishTakeProfit(c) ==
    LET new == CHOOSE o \in ctl[c].wroteOrders : \A x \in ctl[c].wroteOrders : x <= o
    IN
    /\ ctl[c].pc = "tp_event"
    /\ events' = publish_event(ctl[c].args.event_manager_id, "OrderAwaitingExecution",
                               take_profit_event_payload(ctl[c].ids[1], new,
                                                         main_order_data(ctl[c].args)))
    /\ ctl' = [ctl EXCEPT ![c].pc = AfterStep("tp_event", ctl[c].args),
                          ![c].ids = Append(@, new),
                          ![c].wroteEvents = @ \cup {Len(events')}]
    /\ UNCHANGED <<orders, creates, repoFailures>>

\* A create_order whose except branch deletes the rows the call has written.
RepoFailRollsBack(c) ==
    LET first(S) == CHOOSE x \in S : \A y \in S : x <= y
    IN
    /\ ctl[c].pc \in {"main", "main_event", "sl", "sl_event", "tp", "tp_event"}
    /\ repoFailures < MaxRepoFailures
    /\ repoFailures' = repoFailures + 1
    /\ ctl' = [ctl EXCEPT ![c].pc = "raised"]
    /\ orders' = IF ctl[c].wroteOrders = {} THEN orders
                 ELSE SubSeq(orders, 1, first(ctl[c].wroteOrders) - 1)
    /\ events' = IF ctl[c].wroteEvents = {} THEN events
                 ELSE SubSeq(events, 1, first(ctl[c].wroteEvents) - 1)
    /\ UNCHANGED creates

\* the repository raises in an insert or a publish: logged and re-raised, nothing
\* written so far is undone
RepoFail(c) ==
    /\ ctl[c].pc \in {"main", "main_event", "sl", "sl_event", "tp", "tp_event"}
    /\ repoFailures < MaxRepoFailures
    /\ repoFailures' = repoFailures + 1
    /\ ctl' = [ctl EXCEPT ![c].pc = "raised"]
    /\ UNCHANGED <<orders, events, creates>>

----------------------------------------------------------------------------
(* Initial state and the dispatcher's specification *)

\* no manager is started, the events table is empty; the controller and the
\* executor are not used
InitDispatch ==
    /\ events = <<>>
    /\ clock = 1
    /\ mgrStatus = [m \in Managers |-> "inactive"]
    /\ running = [m \in Managers |-> FALSE]
    /\ thread = [m \in Managers |-> "new"]
    /\ cur = [m \in Managers |-> 0]
    /\ handled = [m \in Managers |-> <<>>]
    /\ failures = 0
    /\ calls = [m \in Managers |-> "none"]
    /\ handlerCalls = {}
    /\ orders = <<>>
    /\ ctl = <<>>
    /\ creates = 0
    /\ repoFailures = 0
    /\ instance = FALSE
    /\ initialized = FALSE
    /\ executingOrders = {}
    /\ lockHolder = "free"
    /\ monitorThreads = 0
    /\ eng = <<>>
    /\ submitted = <<>>
    /\ execCalls = 0
    /\ notifications = {}

NextDispatch ==
    \/ \E m \in Managers, p \in Priorities : AddEvent(m, p) /\ UNCHANGED <<createVars, engineVars>>
    \/ Tick /\ UNCHANGED <<createVars, engineVars>>
    \/ \E m \in Local : Start(m) /\ UNCHANGED <<createVars, engineVars>>
    \/ \E m \in Local : RunEnter(m) /\ UNCHANGED <<createVars, engineVars>>
    \/ \E m \in Local : SelectEvent(m) /\ UNCHANGED <<createVars, engineVars>>
    \/ \E m \in Local : HandleOk(m) /\ UNCHANGED <<createVars, engineVars>>
    \/ \E m \in Local : HandleFail(m) /\ UNCHANGED <<createVars, engineVars>>
    \/ \E m \in Local : LoopExit(m) /\ UNCHANGED <<createVars, engineVars>>
    \/ \E m \in Local : LoopExitFail(m) /\ UNCHANGED <<createVars, engineVars>>
    \/ \E m \in Local : Stop(m) /\ UNCHANGED <<createVars, engineVars>>

SpecDispatch == InitDispatch /\ [][NextDispatch]_vars

----------------------------------------------------------------------------
(* The manager's life cycle, start() once and then stop(), with a repository *)
(* that does not fail: the thread, once started, is scheduled again and again *)

\* a step of manager m's thread
ThreadStep(m) ==
    \/ RunEnter(m)
    \/ SelectEvent(m)
    \/ HandleOk(m)
    \/ LoopExit(m)

lifecycleFrame == <<createVars, engineVars>>

NextLifecycle ==
    \/ \E m \in Managers, p \in Priorities : AddEvent(m, p) /\ UNCHANGED lifecycleFrame
    \/ \E m \in Local : calls[m] = "none" /\ Start(m) /\ UNCHANGED lifecycleFrame
    \/ \E m \in Local : RunEnter(m) /\ UNCHANGED lifecycleFrame
    \/ \E m \in Local : SelectEvent(m) /\ UNCHANGED lifecycleFrame
    \/ \E m \in Local : HandleOk(m) /\ UNCHANGED lifecycleFrame
    \/ \E m \in Local : LoopExit(m) /\ UNCHANGED lifecycleFrame
    \/ \E m \in Local : Stop(m) /\ UNCHANGED lifecycleFrame

SpecLifecycle ==
    /\ InitDispatch
    /\ [][NextLifecycle]_vars
    /\ \A m \in Local : WF_vars(ThreadStep(m) /\ UNCHANGED lifecycleFrame)

----------------------------------------------------------------------------
(* Several managers in parallel: every manager is started once and keeps      *)
(* running, callers add events to any of them, the handlers and the repository *)
(* do not fail; every thread, once started, is scheduled again and again      *)

\* a step of manager m's thread while it keeps running
ParallelStep(m) ==
    \/ RunEnter(m)
    \/ SelectEvent(m)
    \/ HandleOk(m)

parallelFrame == <<createVars, engineVars>>

NextParallel ==
    \/ \E m \in Managers, p \in Priorities : AddEvent(m, p) /\ UNCHANGED parallelFrame
    \/ \E m \in Managers : calls[m] = "none" /\ Start(m) /\ UNCHANGED parallelFrame
    \/ \E m \in Managers : RunEnter(m) /\ UNCHANGED parallelFrame
    \/ \E m \in Managers : SelectEvent(m) /\ UNCHANGED parallelFrame
    \/ \E m \in Managers : HandleOk(m) /\ UNCHANGED parallelFrame

SpecParallel ==
    /\ InitDispatch
    /\ [][NextParallel]_vars
    /\ \A m \in Managers : WF_vars(ParallelStep(m) /\ UNCHANGED parallelFrame)

----------------------------------------------------------------------------
(* The executor's specification: the repository holds orders written by an   *)
(* earlier run of the process, in any status                                *)

\* a root order row as create_order writes it
RootRow(status) ==
    [portfolio_id |-> <<"p1">>, event_manager_id |-> "m1", signal_id |-> "s1",
     order_type |-> "limit", order_category |-> "spot", order_side |-> "buy",
     target_price |-> 1, order_status |-> status, symbol |-> "BTCUSD",
     exchange |-> "bybit", base_currency |-> "BTC", quote_currency |-> "USD",
     initial_quantity |-> 1, executed_quantity |-> 0, extra_summary |-> NULL,
     total_fee |-> 0, parent_order_id |-> NULL]

InitEngine ==
    /\ events = <<>>
    /\ clock = 1
    /\ mgrStatus = [m \in Managers |-> "inactive"]
    /\ running = [m \in Managers |-> FALSE]
    /\ thread = [m \in Managers |-> "new"]
    /\ cur = [m \in Managers |-> 0]
    /\ handled = [m \in Managers |-> <<>>]
    /\ failures = 0
    /\ calls = [m \in Managers |-> "none"]
    /\ handlerCalls = {}
    /\ \E s1 \in Statuses, s2 \in Statuses : orders = <<RootRow(s1), RootRow(s2)>>
    /\ ctl = <<>>
    /\ creates = 0
    /\ repoFailures = 0
    /\ instance = FALSE
    /\ initialized = FALSE
    /\ executingOrders = {}
    /\ lockHolder = "free"
    /\ monitorThreads = 0
    /\ eng = [t \in Threads |-> [pc |-> "start", oid |-> 0, res |-> "none", seen |-> "none"]]
    /\ submitted = [o \in 1..2 |-> 0]
    /\ execCalls = 0
    /\ notifications = {}

engineFrame == <<dispatchVars, ctl, creates, repoFailures>>

NextEngine ==
    \/ \E t \in Threads : New(t) /\ UNCHANGED engineFrame
    \/ \E t \in Threads : InitCheck(t) /\ UNCHANGED engineFrame
    \/ \E t \in Threads : InitFields(t) /\ UNCHANGED engineFrame
    \/ \E t \in Threads : InitStart(t) /\ UNCHANGED engineFrame
    \/ \E t \in Threads, o \in 1..(Len(orders) + 1) : ExecBegin(t, o) /\ UNCHANGED engineFrame
    \/ \E t \in Threads, oc \in ExecOutcomes : ExecBody(t, oc) /\ UNCHANGED engineFrame
    \/ \E check \in [executingOrders -> CheckOutcomes] : MonitorPass(check) /\ UNCHANGED engineFrame

SpecEngine == InitEngine /\ [][NextEngine]_vars

\* a pass of the monitor loop in which check_order_status reports every monitored
\* order executed and neither the status update nor the notification raises
CleanPass == MonitorPass([o \in executingOrders |-> "executed"])

\* The executor with a monitor thread that is scheduled (while True, sleep(1)), a
\* gateway that reports the orders filled from some pass on, errors that do not
\* last, and execute_order bodies that return.
SpecEngineFair ==
    /\ InitEngine
    /\ [][NextEngine]_vars
    /\ WF_vars(CleanPass /\ UNCHANGED engineFrame)
    /\ \A t \in Threads :
            WF_vars((\E oc \in ExecOutcomes : ExecBody(t, oc)) /\ UNCHANGED engineFrame)

\* a pass of the monitor loop in which check_order_status reports every monitored
\* order canceled
CanceledPass == MonitorPass([o \in executingOrders |-> "canceled"])

\* what check_order_status returns for an order the venue cancels and never fills
CanceledOutcomes == {"open", "canceled"}

\* one thread constructs the executor and calls execute_order
Owner == {"t1"}

NextMonitor ==
    \/ \E t \in Owner : New(t) /\ UNCHANGED engineFrame
    \/ \E t \in Owner : InitCheck(t) /\ UNCHANGED engineFrame
    \/ \E t \in Owner : InitFields(t) /\ UNCHANGED engineFrame
    \/ \E t \in Owner : InitStart(t) /\ UNCHANGED engineFrame
    \/ \E t \in Owner, o \in 1..(Len(orders) + 1) : ExecBegin(t, o) /\ UNCHANGED engineFrame
    \/ \E t \in Owner, oc \in ExecOutcomes : ExecBody(t, oc) /\ UNCHANGED engineFrame
    \/ \E check \in [executingOrders -> CanceledOutcomes] :
            MonitorPass(check) /\ UNCHANGED engineFrame

\* The executor of one constructing thread, with a monitor thread that is scheduled
\* and a gateway that fills no order and reports the monitored orders canceled
\* from some pass on.
SpecMonitorCanceled ==
    /\ InitEngine
    /\ [][NextMonitor]_vars
    /\ WF_vars(CanceledPass /\ UNCHANGED engineFrame)
    /\ \A t \in Owner :
            WF_vars((\E oc \in ExecOutcomes : ExecBody(t, oc)) /\ UNCHANGED engineFrame)

----------------------------------------------------------------------------
(* The order controller's specification: callers of create_order, each call a  *)
(* sequence of repository writes that interleave with the other caller's       *)

InitCreate ==
    /\ events = <<>>
    /\ clock = 1
    /\ mgrStatus = [m \in Managers |-> "inactive"]
    /\ running = [m \in Managers |-> FALSE]
    /\ thread = [m \in Managers |-> "new"]
    /\ cur = [m \in Managers |-> 0]
    /\ handled = [m \in Managers |-> <<>>]
    /\ failures = 0
    /\ calls = [m \in Managers |-> "none"]
    /\ handlerCalls = {}
    /\ instance = FALSE
    /\ initialized = FALSE
    /\ executingOrders = {}
    /\ lockHolder = "free"
    /\ monitorThreads = 0
    /\ eng = <<>>
    /\ submitted = <<>>
    /\ execCalls = 0
    /\ notifications = {}
    /\ orders = <<>>
    /\ ctl = [c \in Callers |->
                [pc |-> "idle", args |-> NoArgs, ids |-> <<>>,
                 wroteOrders |-> {}, wroteEvents |-> {}]]
    /\ creates = 0
    /\ repoFailures = 0

createFrame == <<clock, mgrStatus, running, thread, cur, handled, failures, calls,
                 handlerCalls, engineVars>>

NextCreate ==
    \/ \E c \in Callers : CreateCall(c) /\ UNCHANGED createFrame
    \/ \E c \in Callers : InsertMain(c) /\ UNCHANGED createFrame
    \/ \E c \in Callers : PublishMain(c) /\ UNCHANGED createFrame
    \/ \E c \in Callers : InsertStopLoss(c) /\ UNCHANGED createFrame
    \/ \E c \in Callers : PublishStopLoss(c) /\ UNCHANGED createFrame
    \/ \E c \in Callers : InsertTakeProfit(c) /\ UNCHANGED createFrame
    \/ \E c \in Callers : PublishTakeProfit(c) /\ UNCHANGED createFrame
    \/ \E c \in Callers : RepoFail(c) /\ UNCHANGED createFrame

SpecCreate == InitCreate /\ [][NextCreate]_vars

----------------------------------------------------------------------------
(* The flow from create_order to the dispatcher: callers create orders for   *)
(* manager m1 while m1's thread runs; the thread is scheduled again and again *)

\* the one caller of create_order, and the (valid) arguments it passes: a limit
\* buy for manager m1, with or without stop_loss and take_profit
FlowCallers == {"c1"}
FlowArgs ==
    [portfolio_id : {<<"p1">>}, event_manager_id : {"m1"}, signal_id : {"s1"},
     order_type : {"limit"}, order_category : {"spot"}, order_side : {"buy"},
     target_price : {1}, order_status : {"pending"}, symbol : {"BTCUSD"},
     exchange : {"bybit"}, base_currency : {"BTC"}, quote_currency : {"USD"},
     initial_quantity : {1}, stop_loss : {None, <<2>>}, take_profit : {None, <<3>>}]

\* a step of manager m's thread in this flow
FlowThreadStep(m) ==
    \/ RunEnter(m)
    \/ SelectEvent(m)
    \/ HandleOk(m)
    \/ HandleRaise(m)

flowFrame == <<createVars, engineVars>>

NextFlow ==
    \/ \E c \in FlowCallers :
            Idle(c) /\ (\E a \in FlowArgs : CreateCallWith(c, a)) /\ UNCHANGED createFrame
    \/ \E c \in FlowCallers : InsertMain(c) /\ UNCHANGED createFrame
    \/ \E c \in FlowCallers : PublishMain(c) /\ UNCHANGED createFrame
    \/ \E c \in FlowCallers : InsertStopLoss(c) /\ UNCHANGED createFrame
    \/ \E c \in FlowCallers : PublishStopLoss(c) /\ UNCHANGED createFrame
    \/ \E c \in FlowCallers : InsertTakeProfit(c) /\ UNCHANGED createFrame
    \/ \E c \in FlowCallers : PublishTakeProfit(c) /\ UNCHANGED createFrame
    \/ \E m \in Local, p \in Priorities, o \in 1..(Len(orders) + 1) :
            AddPlacementEvent(m, p, o) /\ UNCHANGED flowFrame
    \/ Tick /\ UNCHANGED flowFrame
    \/ \E m \in Local : Start(m) /\ UNCHANGED flowFrame
    \/ \E m \in Local : RunEnter(m) /\ UNCHANGED flowFrame
    \/ \E m \in Local : SelectEvent(m) /\ UNCHANGED flowFrame
    \/ \E m \in Local : HandleOk(m) /\ UNCHANGED flowFrame
    \/ \E m \in Local : HandleRaise(m) /\ UNCHANGED flowFrame

SpecFlow ==
    /\ InitCreate
    /\ [][NextFlow]_vars
    /\ \A m \in Local : WF_vars(FlowThreadStep(m) /\ UNCHANGED flowFrame)

----------------------------------------------------------------------------
(* The core as a whole, once it runs: one caller of create_order, manager m1's *)
(* started dispatcher loop and one thread that calls execute_order on the      *)
(* executor it has constructed, all on the same orders and events tables       *)

\* the calls of this specification: valid limit buys without protective orders
CoreArgs == {a \in FlowArgs : a.stop_loss = None /\ a.take_profit = None}

\* what a monitor pass meets here: an order not executed yet or a check that
\* fails (both leave the tables as they are), and an order executed
CoreCheckOutcomes == {"open", "executed"}

\* an earlier create_order call has written one root order and its event; the
\* manager is started and its loop runs; the executor is constructed
InitCore ==
    /\ clock = 1
    /\ events = <<EventRow("m1", "OrderAwaitingExecution", PublishPriority,
                            [order_id |-> 1, order_status |-> "pending"])>>
    /\ mgrStatus = [m \in Managers |-> IF m \in Local THEN "active" ELSE "inactive"]
    /\ running = [m \in Managers |-> m \in Local]
    /\ thread = [m \in Managers |-> IF m \in Local THEN "loop" ELSE "new"]
    /\ cur = [m \in Managers |-> 0]
    /\ handled = [m \in Managers |-> <<>>]
    /\ failures = 0
    /\ calls = [m \in Managers |-> IF m \in Local THEN "started" ELSE "none"]
    /\ handlerCalls = {}
    /\ orders = <<RootRow("pending")>>
    /\ ctl = [c \in Callers |->
                [pc |-> "idle", args |-> NoArgs, ids |-> <<>>,
                 wroteOrders |-> {}, wroteEvents |-> {}]]
    /\ creates = 0
    /\ repoFailures = 0
    /\ instance = TRUE
    /\ initialized = TRUE
    /\ executingOrders = {}
    /\ lockHolder = "free"
    /\ monitorThreads = 1
    /\ eng = [t \in Threads |->
                [pc |-> IF t \in Owner THEN "ready" ELSE "start",
                 oid |-> 0, res |-> "none", seen |-> "none"]]
    /\ submitted = [o \in 1..(1 + MaxCreates) |-> 0]
    /\ execCalls = 0
    /\ notifications = {}

NextCore ==
    \/ \E c \in FlowCallers :
        /\ Idle(c)
        /\ creates < MaxCreates
        /\ \E a \in CoreArgs : CreateCallWith(c, a) /\ UNCHANGED createFrame
    \/ \E c \in FlowCallers : InsertMain(c) /\ UNCHANGED createFrame
    \/ \E c \in FlowCallers : PublishMain(c) /\ UNCHANGED createFrame
    \/ \E m \in Local : SelectEvent(m) /\ UNCHANGED flowFrame
    \/ \E m \in Local : HandleOk(m) /\ UNCHANGED flowFrame
    \/ \E t \in Owner, o \in OrderIds : ExecBegin(t, o) /\ UNCHANGED engineFrame
    \/ \E t \in Owner, oc \in ExecOutcomes : ExecBody(t, oc) /\ UNCHANGED engineFrame
    \/ \E check \in [executingOrders -> CoreCheckOutcomes] :
            MonitorPass(check) /\ UNCHANGED engineFrame

SpecCore == InitCore /\ [][NextCore]_vars

----------------------------------------------------------------------------
(* Claims about the dispatcher, checked under SpecDispatch *)

\* the k-th and l-th hand-overs of manager m are in ORDER BY order
InOrder(m, k, l) == ~SortsBefore(handled[m][l].eid, handled[m][k].eid)

C2_SelectsHighestEarliest ==
    [][\A m \in Local :
        (thread[m] = "loop" /\ thread'[m] = "handling") =>
            /\ cur'[m] \in EventIds
            /\ events[cur'[m]].event_manager_id = m
            /\ events[cur'[m]].executed_at = NULL
            /\ \A j \in EventIds :
                (events[j].event_manager_id = m /\ events[j].executed_at = NULL) =>
                    /\ events[j].priority <= events[cur'[m]].priority
                    /\ (events[j].priority = events[cur'[m]].priority =>
                            events[j].created_at >= events[cur'[m]].created_at)]_vars

\* C2 witness: an event is being handled while an event of the same manager that
\* was added earlier, with a lower priority, is still pending.
C2_Witness ==
    \E m \in Local : \E j \in Unprocessed(m) :
        /\ thread[m] = "handling"
        /\ j < cur[m]
        /\ events[j].priority < events[cur[m]].priority

\* the worker loop of manager m is running: its thread was started and has not ended
LoopAlive(m) == thread[m] \in {"spawned", "loop", "handling"}

\* C13: while a handler is executing, whether or not stop() is invoked meanwhile,
\* the manager's status is active and is not set to inactive, and the handler is
\* not aborted: the next thing the thread does is return from the handler.
C13_StopWaitsForHandler ==
    [][\A m \in Local :
        /\ (thread'[m] = "handling" => mgrStatus'[m] = "active")
        /\ (thread[m] = "handling" =>
                /\ mgrStatus'[m] = "active"
                /\ thread'[m] \in {"handling", "loop"}
                /\ (thread'[m] = "handling" => cur'[m] = cur[m]))]_vars

\* C13 witness: stop() has returned while the handler is still executing.
C13_Witness ==
    \E m \in Local :
        thread[m] = "handling" /\ calls[m] = "stopped" /\ ~running[m]

\* C14: in a state where stop() has returned (and start() was not called since),
\* no handler of that manager is running and its status is inactive.
C14_StopReturnsAfterInactive ==
    \A m \in Local :
        calls[m] = "stopped" => (thread[m] # "handling" /\ mgrStatus[m] = "inactive")

\* C16: the second of two start() calls (no stop() between or before them) finds
\* the worker loop running and leaves it alone: the thread is where it was, no
\* other loop is spawned, nothing the loop works on changes; and after it the
\* status is active with that one loop running.
C16_SecondStartSpawnsNothing ==
    [][\A m \in Local :
        /\ (calls[m] = "started" /\ calls'[m] = "restarted") =>
                /\ LoopAlive(m)
                /\ thread'[m] = thread[m]
                /\ running'[m] = running[m]
                /\ cur'[m] = cur[m]
                /\ handled'[m] = handled[m]
                /\ events' = events
        /\ calls'[m] = "restarted" => (mgrStatus'[m] = "active" /\ thread'[m] \in
                                            {"spawned", "loop", "handling"})]_vars

\* C16 witness: start() has been called a second time while the loop was handling
\* an event.
C16_Witness ==
    \E m \in Local : calls[m] = "restarted" /\ thread[m] = "handling"

\* C17: whenever a manager's status is active, exactly one worker loop of that
\* manager is running.
C17_ActiveImpliesLoopRunning ==
    \A m \in Local : mgrStatus[m] = "active" => LoopAlive(m)

\* C18: when an event's handler raises, the event's executed_at stays null, no
\* other event row changes, the manager's status and running flag are unchanged
\* and the thread is back in its loop for the next iteration.
C18_HandlerFailureKeepsLoop ==
    [][\A m \in Local :
        (thread[m] = "handling" /\ failures' # failures) =>
            /\ events'[cur[m]].executed_at = NULL
            /\ events' = events
            /\ mgrStatus' = mgrStatus
            /\ running' = running
            /\ thread'[m] = "loop"]_vars

\* C18 witness: a handler has raised, its event is unmarked, the loop is running.
C18_Witness ==
    \E m \in Local :
        /\ failures > 0
        /\ thread[m] = "loop" /\ running[m] /\ mgrStatus[m] = "active"
        /\ Len(handled[m]) > 0
        /\ events[handled[m][Len(handled[m])].eid].executed_at = NULL

\* C19: no event is handed to the handler a second time (an event is handed over
\* again only when its handler raised, since a handled event is marked).
C19_NoRedelivery ==
    \A m \in Local : \A k, l \in 1..Len(handled[m]) :
        k < l => handled[m][k].eid # handled[m][l].eid

\* how often event e was handed to manager m's handler
TimesHanded(m, e) == Cardinality({k \in 1..Len(handled[m]) : handled[m][k].eid = e})

\* C21: an event's executed_at, once set, never changes; it is set only in the
\* step in which the handler of that event completes without raising; and it is
\* not set for an event whose handler raised (one that was handed over before) or
\* that was never selected.
C21_ExecutedAtSetOnce ==
    [][\A e \in EventIds :
        /\ events[e].executed_at # NULL => events'[e].executed_at = events[e].executed_at
        /\ (events[e].executed_at = NULL /\ events'[e].executed_at # NULL) =>
                \E m \in Local :
                    /\ thread[m] = "handling" /\ cur[m] = e
                    /\ thread'[m] = "loop" /\ failures' = failures
                    /\ TimesHanded(m, e) = 1]_vars

----------------------------------------------------------------------------
(* Claims about managers in parallel, checked under SpecParallel *)

\* C22: with several managers running and events added to them in any
\* interleaving, every event a manager hands to its handler is owned by that
\* manager.
C22_HandlesOnlyOwnEvents ==
    \A m \in Managers :
        /\ \A k \in 1..Len(handled[m]) : events[handled[m][k].eid].event_manager_id = m
        /\ cur[m] # 0 => events[cur[m]].event_manager_id = m

\* C22 witness: both managers have handled one event each while the other's was
\* in the table.
C22_Witness ==
    \A m \in Managers : Len(handled[m]) >= 1 /\ handled[m][1].n >= 2

\* the events of manager m that are marked processed
Processed(m) ==
    {e \in EventIds : events[e].event_manager_id = m /\ events[e].executed_at # NULL}

\* C23: provided handlers do not raise and the manager keeps running, every event
\* added to a started manager is eventually handled (marked processed), no event
\* is handed over twice, and when all N events of a manager are processed its
\* handler was invoked N times.
C23_EveryEventHandledOnce ==
    /\ \A m \in Managers : \A i \in 1..MaxEvents :
        (i \in Unprocessed(m) /\ thread[m] # "new") ~> (i \in Processed(m))
    /\ [](\A m \in Managers :
            /\ \A e \in EventIds : TimesHanded(m, e) <= 1
            /\ Unprocessed(m) = {} => Len(handled[m]) = Cardinality(Processed(m)))

\* C23 witness: a manager has processed two events and its handler ran twice.
C23_Witness ==
    \E m \in Managers :
        Cardinality(Processed(m)) = 2 /\ Unprocessed(m) = {} /\ Len(handled[m]) = 2

----------------------------------------------------------------------------
(* Claims about the manager's life cycle, checked under SpecLifecycle *)

\* C15: once start() was followed by stop() (stop() has returned), however the
\* two calls interleave with the worker thread, the worker loop eventually exits
\* and the manager's status eventually becomes inactive.
C15_StopEventuallyStops ==
    \A m \in Local :
        (calls[m] = "stopped") ~> (thread[m] = "finished" /\ mgrStatus[m] = "inactive")

----------------------------------------------------------------------------
(* Claims about the order controller, checked under SpecCreate *)

\* the number of stop_loss / take_profit values a call was given
Protections(a) ==
    (IF a.stop_loss # None THEN 1 ELSE 0) + (IF a.take_profit # None THEN 1 ELSE 0)

\* C8: a create_order call that returned wrote exactly 1 + k orders and 1 + k
\* events, k the number of stop_loss / take_profit values given, and returned the
\* ids of the orders it wrote in creation order: root, stop-loss, take-profit.
C8_WritesOnePlusK ==
    \A c \in Callers :
        ctl[c].pc = "returned" =>
            LET a == ctl[c].args
                ids == ctl[c].ids
                n == 1 + Protections(a)
            IN /\ Cardinality(ctl[c].wroteOrders) = n
               /\ Cardinality(ctl[c].wroteEvents) = n
               /\ Len(ids) = n
               /\ {ids[i] : i \in 1..Len(ids)} = ctl[c].wroteOrders
               /\ \A i, j \in 1..Len(ids) : i < j => ids[i] < ids[j]
               /\ orders[ids[1]].parent_order_id = NULL
               /\ a.stop_loss # None => orders[ids[2]].order_type = "stop_loss"
               /\ a.take_profit # None => orders[ids[n]].order_type = "take_profit"

\* C8 witness: a call given both a stop_loss and a take_profit has returned.
C8_Witness ==
    \E c \in Callers :
        /\ ctl[c].pc = "returned"
        /\ ctl[c].args.stop_loss # None
        /\ ctl[c].args.take_profit # None
        /\ Len(ctl[c].ids) = 3

\* C9: every persisted stop_loss / take_profit order has as parent_order_id the id
\* of a persisted order without parent, and the side opposite to that parent's;
\* every other order has no parent.
C9_DerivedOrdersHaveRootParent ==
    \A o \in OrderIds :
        IF orders[o].order_type \in {"stop_loss", "take_profit"}
        THEN /\ orders[o].parent_order_id \in OrderIds
             /\ orders[orders[o].parent_order_id].parent_order_id = NULL
             /\ orders[o].order_side # orders[orders[o].parent_order_id].order_side
        ELSE orders[o].parent_order_id = NULL

\* the placement events whose payload carries order id o
PlacementEventsOf(o) ==
    {e \in EventIds : /\ events[e].event_type = "OrderAwaitingExecution"
                      /\ events[e].payload.order_id = o}

\* C10: when every create_order call made so far has returned without a repository
\* failure, every persisted order has exactly one placement event carrying its id
\* (so no two placement events carry the same order id).
C10_OnePlacementEventPerOrder ==
    (repoFailures = 0 /\ \A c \in Callers : Idle(c)) =>
        \A o \in OrderIds : Cardinality(PlacementEventsOf(o)) = 1

\* C10 witness: the calls have returned, none failed, and a root, a stop-loss and
\* a take-profit order are persisted.
C10_Witness ==
    /\ repoFailures = 0
    /\ \A c \in Callers : Idle(c)
    /\ \E o1, o2, o3 \in OrderIds :
        /\ orders[o2].order_type = "stop_loss" /\ orders[o2].parent_order_id = o1
        /\ orders[o3].order_type = "take_profit" /\ orders[o3].parent_order_id = o1

\* a call's arguments have one of the defects the validation is to reject: a
\* missing identifier (portfolio, manager, signal), a side other than buy / sell,
\* a target price or quantity <= 0, a given stop_loss or take_profit <= 0
Defective(a) ==
    \/ a.portfolio_id = None
    \/ a.event_manager_id = ""
    \/ a.signal_id = ""
    \/ a.order_side \notin {"buy", "sell"}
    \/ a.target_price <= 0
    \/ a.initial_quantity <= 0
    \/ (a.stop_loss # None /\ a.stop_loss[1] <= 0)
    \/ (a.take_profit # None /\ a.take_profit[1] <= 0)

\* C11: a create_order call whose arguments have such a defect raises from the
\* validation, before any write: it has inserted no order and published no event.
C11_DefectiveCallWritesNothing ==
    \A c \in Callers :
        (ctl[c].pc # "idle" /\ (ctl[c].args = NoArgs \/ Defective(ctl[c].args))) =>
            /\ ctl[c].pc = "raised"
            /\ ctl[c].wroteOrders = {}
            /\ ctl[c].wroteEvents = {}

----------------------------------------------------------------------------
(* Claims about the flow from create_order to the executor, under SpecFlow *)

\* C12: once the dispatcher has handled a placement event that create_order
\* published (the handler returned and the event is marked processed), the handler
\* has called execute_order with the order id the event's payload carries.
C12_HandledPlacementIsExecuted ==
    \A e \in EventIds :
        (events[e].event_type = "OrderAwaitingExecution" /\ events[e].executed_at # NULL) =>
            events[e].payload.order_id \in handlerCalls

\* the most events the flow can write
FlowEventIds == 1..(3 * MaxCreates + MaxExternalEvents)

\* C20: the queue keeps moving when one event's processing fails, even every time
\* it is tried: every pending event of a manager whose loop is running is
\* eventually handed to the handler.
C20_QueueKeepsMoving ==
    \A m \in Local : \A i \in FlowEventIds :
        (i \in Unprocessed(m) /\ thread[m] \in {"loop", "handling"}) ~> (cur[m] = i)

----------------------------------------------------------------------------
(* Claims about the executor, checked under SpecEngine *)

\* C3: of two execute_order calls made by different threads for the same order
\* id, one of which found the order pending, only one submits and succeeds; the
\* other raises.
C3_OneCallSucceedsPerOrder ==
    \A t1, t2 \in Threads :
        (t1 # t2 /\ eng[t1].oid = eng[t2].oid /\ eng[t1].seen = "pending") =>
            ~(eng[t1].res = "ok" /\ eng[t2].res = "ok")

\* C4: an execute_order call for an order that is executing, executed or canceled
\* raises, submits nothing and leaves the order's status and the monitor set alone.
C4_RejectsNonPending ==
    [][\A t \in Threads :
        (/\ eng[t].pc = "exec"
         /\ eng'[t].pc = "ready"
         /\ eng[t].oid \in OrderIds
         /\ orders[eng[t].oid].order_status \in {"executing", "executed", "canceled"}) =>
            /\ eng'[t].res = "raised"
            /\ submitted' = submitted
            /\ orders' = orders
            /\ executingOrders' = executingOrders]_vars

\* C5: an order's status never regresses: executing never returns to pending, and
\* executed or canceled never changes again.
C5_StatusMonotone ==
    [][\A o \in OrderIds :
        /\ (orders[o].order_status \in Terminal =>
                orders'[o].order_status = orders[o].order_status)
        /\ (orders[o].order_status = "executing" =>
                orders'[o].order_status # "pending")]_vars

\* C6: once the executor is constructed and before any execute_order call, every
\* order the repository holds in status executing is in the monitor set.
C6_StartupReconciliation ==
    (initialized /\ execCalls = 0) => get_executing_orders \subseteq executingOrders

\* C7: however the constructions interleave, at most one monitor loop is started.
C7_SingleMonitorLoop == monitorThreads <= 1

\* C24: a thread that is inside the body of execute_order, its gateway submission
\* included, holds no lock of the executor, so another execute_order call and the
\* monitor pass need not wait for it.
C24_SubmissionHoldsNoLock ==
    \A t \in Threads : eng[t].pc = "exec" => lockHolder # t

\* C25: execute_order for an id the repository does not hold raises, submits
\* nothing to the gateway and changes no order's status and not the monitor set.
C25_UnknownOrderRaises ==
    [][\A t \in Threads, oc \in ExecOutcomes :
        (ExecBody(t, oc) /\ eng[t].oid \notin OrderIds) =>
            /\ eng'[t].res = "raised"
            /\ submitted' = submitted
            /\ orders' = orders
            /\ executingOrders' = executingOrders]_vars

C25_Witness ==
    \E t \in Threads :
        eng[t].pc = "ready" /\ eng[t].res = "raised" /\ eng[t].oid = Len(orders) + 1

\* C26: when the gateway refuses the submission the call raises, the order keeps
\* its status and stays out of the monitor set unless it was there already, and
\* a later call for the same id whose submission the gateway accepts returns
\* normally.
C26_RefusedSubmissionChangesNothing ==
    [][\A t \in Threads :
        /\ (ExecBody(t, "rejected") /\ eng[t].oid \in OrderIds) =>
                /\ eng'[t].res = "raised"
                /\ orders' = orders
                /\ executingOrders' = executingOrders
                /\ notifications' = notifications
        /\ (ExecBody(t, "accepted") /\ eng[t].oid \in OrderIds) =>
                eng'[t].res = "ok"]_vars

\* one call for a pending order was refused and left it pending and unmonitored,
\* the other call for the same order was accepted
C26_Witness ==
    \E t, u \in Threads :
        /\ eng[t].oid \in OrderIds /\ eng[u].oid = eng[t].oid
        /\ eng[t].pc = "ready" /\ eng[t].res = "raised" /\ eng[t].seen = "pending"
        /\ eng[u].pc = "ready" /\ eng[u].res = "ok" /\ eng[u].seen = "pending"
        /\ submitted[eng[t].oid] = 1

\* C27: after an execute_order whose submission the gateway accepted, the order
\* has status executing and its id is in the monitor set.
C27_AcceptedIsExecutingAndMonitored ==
    [][\A t \in Threads, oc \in ExecOutcomes \ {"rejected"} :
        (ExecBody(t, oc) /\ eng[t].oid \in OrderIds) =>
            /\ orders'[eng[t].oid].order_status = "executing"
            /\ eng[t].oid \in executingOrders']_vars

\* C28: in a monitor pass that finds a monitored order executed at the gateway,
\* and whose update and notification for it do not raise, the order's status
\* becomes executed, its completion notification is published and its id leaves
\* the monitor set.
C28_FilledIsRecordedAndDropped ==
    [][(lockHolder = "free" /\ UNCHANGED <<eng, execCalls>>) =>
        \A check \in [executingOrders -> CheckOutcomes] :
            MonitorPass(check) =>
                \A o \in executingOrders :
                    check[o] = "executed" =>
                        /\ orders'[o].order_status = "executed"
                        /\ <<"OrderExecuted", o>> \in notifications'
                        /\ o \notin executingOrders']_vars

C28_Witness ==
    \E o \in OrderIds :
        /\ submitted[o] >= 1
        /\ orders[o].order_status = "executed"
        /\ <<"OrderExecuted", o>> \in notifications
        /\ o \notin executingOrders

\* C29: an id leaves the monitor set only in a monitor pass that recorded status
\* executed for it and published its notification.
C29_LeavesOnlyWhenExecuted ==
    [][\A o \in executingOrders :
        o \notin executingOrders' =>
            /\ eng' = eng
            /\ orders'[o].order_status = "executed"
            /\ <<"OrderExecuted", o>> \in notifications']_vars

\* C30: every order in the monitor set eventually has status executed and is out
\* of the monitor set.
C30_MonitoredEventuallyExecuted ==
    \A o \in 1..2 :
        (o \in executingOrders) ~>
            (orders[o].order_status = "executed" /\ o \notin executingOrders)

\* C31: a monitored order that the gateway reports canceled eventually has status
\* canceled and is out of the monitor set.
C31_CanceledEventuallyRecorded ==
    \A o \in 1..2 :
        (o \in executingOrders) ~>
            (orders[o].order_status = "canceled" /\ o \notin executingOrders)

\* C32: once stop() has returned (and start() was not called since), the manager's
\* loop selects no further event.
C32_NoSelectionAfterStop ==
    [][\A m \in Local :
        calls[m] = "stopped" => ~(thread[m] = "loop" /\ thread'[m] = "handling")]_vars

\* the number of rows the events table held at manager m's latest selection
LastSelectionAt(m) ==
    IF handled[m] = <<>> THEN 0 ELSE handled[m][Len(handled[m])].n

\* C33: a manager handles one event at a time and to completion: while an event is
\* being handled no step (an add_event of any priority included) changes which
\* one it is, the manager takes another event only from the idle loop, and at
\* that selection no pending event added since the previous selection has a
\* higher priority than the one chosen.
C33_NonPreemptiveSequential ==
    [][\A m \in Local :
        /\ (thread[m] = "handling" /\ thread'[m] = "handling") => cur'[m] = cur[m]
        /\ (cur[m] # 0 /\ cur'[m] # cur[m]) => (cur'[m] = 0 /\ thread'[m] = "loop")
        /\ (thread[m] = "loop" /\ thread'[m] = "handling") =>
                \A j \in Unprocessed(m) :
                    j > LastSelectionAt(m) =>
                        events[j].priority <= events[cur'[m]].priority]_vars

\* C33 witness: the second event was added with a higher priority while the first
\* was being handled (after its selection, before its completion), the first was
\* completed and the second is the one selected next.
C33_Witness ==
    \E m \in Local :
        /\ Len(handled[m]) = 2
        /\ handled[m][2].eid > handled[m][1].n
        /\ events[handled[m][2].eid].priority > events[handled[m][1].eid].priority
        /\ events[handled[m][1].eid].executed_at # NULL
        /\ events[handled[m][2].eid].created_at < events[handled[m][1].eid].executed_at
        /\ cur[m] = handled[m][2].eid

----------------------------------------------------------------------------
(* More claims about the order controller, checked under SpecCreate *)

\* a create_order call raised in the insert of a derived order: it has written the
\* root and as many events as orders
DerivedInsertFailed(c) ==
    /\ ctl[c].pc = "raised"
    /\ ctl[c].wroteOrders # {}
    /\ Cardinality(ctl[c].wroteEvents) = Cardinality(ctl[c].wroteOrders)

\* C34: after a create_order call that raised in the insert of a derived order,
\* the root order and its placement event are persisted as written, every row the
\* call wrote is still there, and the orders derived from the root are only those
\* written before the failure: fewer than the stop_loss / take_profit values given.
C34_RootSurvivesDerivedFailure ==
    \A c \in Callers :
        DerivedInsertFailed(c) =>
            LET root == ctl[c].ids[1]
            IN /\ ctl[c].wroteOrders \subseteq OrderIds
               /\ ctl[c].wroteEvents \subseteq EventIds
               /\ root \in ctl[c].wroteOrders
               /\ orders[root].parent_order_id = NULL
               /\ orders[root].order_type = ctl[c].args.order_type
               /\ PlacementEventsOf(root) \cap ctl[c].wroteEvents # {}
               /\ {o \in OrderIds : orders[o].parent_order_id = root}
                      = ctl[c].wroteOrders \ {root}
               /\ Cardinality(ctl[c].wroteOrders) < 1 + Protections(ctl[c].args)

\* C34 witness: a call given a stop_loss and a take_profit raised in the insert of
\* the stop-loss order, after the root and its event.
C34_Witness ==
    \E c \in Callers :
        /\ DerivedInsertFailed(c)
        /\ ctl[c].args.stop_loss # None
        /\ ctl[c].args.take_profit # None
        /\ Cardinality(ctl[c].wroteOrders) = 1

\* the fields a derived order takes over from its root
CopiedFields ==
    {"portfolio_id", "event_manager_id", "signal_id", "order_category", "symbol",
     "base_currency", "quote_currency", "initial_quantity", "order_status"}

\* C35: every derived order a create_order call has written has the root's
\* portfolio, manager, signal, category, symbol, currencies, quantity and status,
\* has order_type stop_loss or take_profit, and has as target_price the stop_loss
\* (respectively take_profit) value the call was given.
C35_DerivedCopiesRoot ==
    \A c \in Callers : \A o \in ctl[c].wroteOrders :
        o # ctl[c].ids[1] =>
        LET root == orders[ctl[c].ids[1]]
            a == ctl[c].args
        IN /\ \A f \in CopiedFields : orders[o][f] = root[f] /\ orders[o][f] = a[f]
           /\ orders[o].order_type \in {"stop_loss", "take_profit"}
           /\ orders[o].order_type = "stop_loss" =>
                  (a.stop_loss # None /\ orders[o].target_price = a.stop_loss[1])
           /\ orders[o].order_type = "take_profit" =>
                  (a.take_profit # None /\ orders[o].target_price = a.take_profit[1])

\* C35 witness: a call has written a stop-loss and a take-profit order whose
\* target prices differ from the root's and from each other.
C35_Witness ==
    \E c \in Callers : \E o1, o2 \in ctl[c].wroteOrders :
        /\ orders[o1].order_type = "stop_loss" /\ orders[o1].parent_order_id = ctl[c].ids[1]
        /\ orders[o2].order_type = "take_profit" /\ orders[o2].parent_order_id = ctl[c].ids[1]
        /\ orders[o1].target_price # orders[ctl[c].ids[1]].target_price
        /\ orders[o2].target_price # orders[ctl[c].ids[1]].target_price
        /\ orders[o1].target_price # orders[o2].target_price

\* the calls for a market order without a price whose other arguments pass the
\* validation
MarketArgs ==
    {a \in CreateArgs :
        /\ a.order_type = "market"
        /\ a.target_price = NoPrice
        /\ Validate([a EXCEPT !.target_price = 1])}

\* C36: a create_order call for a market order with target_price null and
\* otherwise valid arguments passes the validation and goes on to write the root
\* order.
C36_MarketOrderNeedsNoPrice ==
    [][\A c \in Callers : \A a \in MarketArgs :
        CreateCallWith(c, a) => ctl'[c].pc = "main"]_vars

----------------------------------------------------------------------------
(* Claims about the core as a whole, checked under SpecCore *)

\* C37: no step removes an order or an event or changes a field of a persisted
\* row other than an order's status and an event's executed_at; an order's status
\* changes only in a step of execute_order or of the monitor loop; an event's
\* executed_at changes only in the dispatcher's marking step.
C37_MutatedOnlyByOwner ==
    [][/\ Len(orders') >= Len(orders)
       /\ Len(events') >= Len(events)
       /\ \A o \in OrderIds :
            /\ orders'[o] = [orders[o] EXCEPT !.order_status = orders'[o].order_status]
            /\ orders'[o].order_status # orders[o].order_status =>
                    \/ \E t \in Threads, oc \in ExecOutcomes : ExecBody(t, oc)
                    \/ \E check \in [executingOrders -> CoreCheckOutcomes] : MonitorPass(check)
       /\ \A e \in EventIds :
            /\ events'[e] = [events[e] EXCEPT !.executed_at = events'[e].executed_at]
            /\ events'[e].executed_at # events[e].executed_at =>
                    \E m \in Managers : HandleOk(m)]_vars

\* C37 witness: create_order has written a second order and its event, the
\* dispatcher has marked an event processed, execute_order has set an order
\* executing and the monitor has set an order executed.
C37_Witness ==
    /\ Len(orders) = 2 /\ Len(events) = 2
    /\ \E e \in EventIds : events[e].executed_at # NULL
    /\ \E o \in OrderIds : orders[o].order_status = "executing"
    /\ \E o \in OrderIds : orders[o].order_status = "executed"

----------------------------------------------------------------------------
(* More claims about the executor, checked under SpecEngine *)

\* C38: an execute_order call that raises has had no gateway submission accepted:
\* the number of accepted submissions is the same after the call as before it.
C38_RaisedMeansNotSubmitted ==
    [][\A t \in Threads :
        (eng[t].pc = "exec" /\ eng'[t].pc = "ready" /\ eng'[t].res = "raised") =>
            submitted' = submitted]_vars

\* C39: whenever the executor's lock is free, the monitor set agrees with the
\* repository; in particular every id in the monitor set is the id of an order
\* whose persisted status is executing.
C39_MonitorSetAgreesWithRepository ==
    (initialized /\ lockHolder = "free") =>
        \A o \in executingOrders : orders[o].order_status = "executing"

----------------------------------------------------------------------------
(* Claims about the order of create_order's writes, checked under SpecCreate *)

\* C40: every placement event carries the id of an order that was persisted
\* before the event was written, also when a create_order call fails part-way.
C40_EventReferencesPersistedOrder ==
    [][\A e \in 1..Len(events') :
        (e > Len(events) /\ events'[e].event_type = "OrderAwaitingExecution") =>
            events'[e].payload.order_id \in OrderIds]_vars

\* C40 witness: a call failed in a publish, after the insert of the order the
\* event was for, and an event written earlier by the call is persisted.
C40_Witness ==
    \E c \in Callers :
        /\ ctl[c].pc = "raised"
        /\ ctl[c].wroteEvents # {}
        /\ Cardinality(ctl[c].wroteOrders) > Cardinality(ctl[c].wroteEvents)
        /\ \A e \in ctl[c].wroteEvents : events[e].payload.order_id \in ctl[c].wroteOrders

====
